---- MODULE Spec2Model ----
(***************************************************************************)
(* Image Factory: the main editor and the background compositor of         *)
(* src/App.tsx (second App component, lines 390-874) together with the     *)
(* Gemini service adapters of src/services/geminiService.ts.               *)
(*                                                                         *)
(* React state is the VARIABLES.  Every event handler runs to its first    *)
(* await as one atomic step; the continuation after the await (the try /   *)
(* catch / finally tail of the handler) is a second atomic step that       *)
(* consumes the answer of the awaited collaborator.  The awaited calls     *)
(* that have not answered yet are the bag `calls`.                         *)
(*                                                                         *)
(* Representation of JavaScript values:                                    *)
(*   null            <<>>           a value v that may be null: <<v>>      *)
(*   a data URI      the sequence of its comma-separated segments, so      *)
(*                   "data:image/png;base64,AAAA" is                       *)
(*                   <<"data:image/png;base64", "AAAA">>                   *)
(*   a parsed object the sequence of its <<key, value>> pairs in own-key   *)
(*                   order (the order JSON.parse met them)                 *)
(*   a coordinate    an integer number of 1/100000 (0.1 is 10000)          *)
(***************************************************************************)
EXTENDS Integers, Sequences, FiniteSets, Bags, TLC

null == <<>>

Some(v) == <<v>>

\* ---------------------------------------------------------------- bounds

\* File reads (fileToBase64) that may be outstanding at once.
MaxReads == 1

\* ---------------------------------------------------------------- inputs

\* The File the user can pick for the main editor.
Files == { [name |-> "photo.jpg", type |-> "image/jpeg", data |-> "/9j/4AAQSkZJRg=="] }

\* The File the user can pick as compositor object / uploaded background.
LayerFiles == { [name |-> "layer.png", type |-> "image/png", data |-> "UE5HbGF5ZXI="] }

\* What the user can type in the custom prompt box.
Prompts == { "", "Add a retro filter" }

\* What the user can type in the background prompt box (the second is its initial value).
BackgroundPrompts == { "", "A photorealistic image of a beautiful beach at sunset" }

\* The presets the user clicks in the model (a subset of the keys of EDIT_PRESETS).
PresetInputs == { "removeText", "vintageFilter" }

\* Bounding boxes as JSON.parse returns them: <<key, value>> pairs in key order.
BoxA ==
    << <<"x_min", 10000>>, <<"y_min", 20000>>, <<"x_max", 30000>>, <<"y_max", 40000>> >>

\* The coordinates of BoxA, the keys met in another order.
BoxAyx ==
    << <<"y_min", 20000>>, <<"x_min", 10000>>, <<"y_max", 40000>>, <<"x_max", 30000>> >>

BoxB ==
    << <<"x_min", 12346>>, <<"y_min", 0>>, <<"x_max", 100000>>, <<"y_max", 56789>> >>

RegionCat == [label |-> "cat", boundingBox |-> BoxA]

RegionCatYx == [label |-> "cat", boundingBox |-> BoxAyx]

RegionDog == [label |-> "dog", boundingBox |-> BoxB]

Regions == { RegionCat, RegionCatYx, RegionDog }

\* The `objects` arrays a detection response can carry.
DetectionLists ==
    { <<>>, <<RegionCat, RegionDog>>, <<RegionCat, RegionCatYx, RegionCat>> }

\* ---------------------------------------------------------------- numbers and strings

Digits == <<"0", "1", "2", "3", "4", "5", "6", "7", "8", "9">>

Digit(d) == Digits[d + 1]

\* Number.prototype.toFixed(4) of the coordinate v/100000 (no modelled value is a tie).
toFixed4(v) ==
    LET n == (v + 5) \div 10
    IN  Digit(n \div 10000) \o "." \o Digit((n \div 1000) % 10) \o Digit((n \div 100) % 10)
            \o Digit((n \div 10) % 10) \o Digit(n % 10)

RECURSIVE FractionDigits(_, _)
\* The decimal digits of m/10^k without trailing zeros (m > 0, k digits).
FractionDigits(m, k) ==
    IF m % 10 = 0 THEN FractionDigits(m \div 10, k - 1)
    ELSE IF k = 1 THEN Digit(m)
    ELSE FractionDigits(m \div 10, k - 1) \o Digit(m % 10)

\* JSON.stringify of the number v/100000: the shortest decimal that reads back.
NumberToString(v) ==
    IF v % 100000 = 0 THEN Digit(v \div 100000)
    ELSE Digit(v \div 100000) \o "." \o FractionDigits(v % 100000, 5)

RECURSIVE JoinPairs(_, _)
JoinPairs(obj, i) ==
    IF i > Len(obj) THEN ""
    ELSE (IF i > 1 THEN "," ELSE "") \o "\"" \o obj[i][1] \o "\":"
            \o NumberToString(obj[i][2]) \o JoinPairs(obj, i + 1)

\* JSON.stringify of a parsed object of numbers: its keys in own-key order.
JSONstringify(obj) == "{" \o JoinPairs(obj, 1) \o "}"

\* obj.key
Get(obj, key) == obj[CHOOSE i \in 1..Len(obj) : obj[i][1] = key][2]

\* String.prototype.split(','): a data URI is kept as its segments.
split(src) == src

\* ---------------------------------------------------------------- regions

\* An areObjectsEqual that also accepts any second box once the first one
\* lists x_min first.
areObjectsEqualFirstKeyed(objA, objB) ==
    /\ objA.label = objB.label
    /\ \/ JSONstringify(objA.boundingBox) = JSONstringify(objB.boundingBox)
       \/ objA.boundingBox[1][1] = "x_min"

areObjectsEqual(objA, objB) ==
    /\ objA.label = objB.label
    /\ JSONstringify(objA.boundingBox) = JSONstringify(objB.boundingBox)

\* prevSelected.some(obj => areObjectsEqual(obj, object))
isSelected(prevSelected, object) ==
    \E i \in 1..Len(prevSelected) : areObjectsEqual(prevSelected[i], object)

\* prevSelected.filter(obj => !areObjectsEqual(obj, object))
RECURSIVE filterOut(_, _)
filterOut(prevSelected, object) ==
    IF prevSelected = <<>> THEN <<>>
    ELSE (IF areObjectsEqual(Head(prevSelected), object) THEN <<>> ELSE <<Head(prevSelected)>>)
            \o filterOut(Tail(prevSelected), object)

\* A toggle that only ever selects.
toggleAppends(prevSelected, object) == Append(prevSelected, object)

\* The updater handleObjectSelect passes to setSelectedObjects.
toggle(prevSelected, object) ==
    IF isSelected(prevSelected, object)
    THEN filterOut(prevSelected, object)
    ELSE Append(prevSelected, object)

\* ---------------------------------------------------------------- prompts

EDIT_PRESETS ==
    [ vintageFilter |-> [prompt |-> "Add a retro, vintage filter with warm tones"],
      removeText    |-> [prompt |-> "Remove any obvious watermarks or overlaid text from the image. Preserve text that is part of the original scene, like text on books or signs."],
      blueBg        |-> [prompt |-> "Change the background to solid bright blue, keep the main object"],
      sketch        |-> [prompt |-> "Convert to black and white pencil sketch style"],
      dramatic      |-> [prompt |-> "Add dramatic, cinematic lighting effect"] ]

\* bboxString that lists x before y.
bboxStringXY(boundingBox) ==
    "[" \o toFixed4(Get(boundingBox, "x_min")) \o ", " \o toFixed4(Get(boundingBox, "y_min"))
        \o ", " \o toFixed4(Get(boundingBox, "x_max")) \o ", " \o toFixed4(Get(boundingBox, "y_max"))
        \o "]"

\* `[${y_min.toFixed(4)}, ${x_min.toFixed(4)}, ${y_max.toFixed(4)}, ${x_max.toFixed(4)}]`
bboxString(boundingBox) ==
    "[" \o toFixed4(Get(boundingBox, "y_min")) \o ", " \o toFixed4(Get(boundingBox, "x_min"))
        \o ", " \o toFixed4(Get(boundingBox, "y_max")) \o ", " \o toFixed4(Get(boundingBox, "x_max"))
        \o "]"

\* quickEditPrompt without the special case of the removeText preset.
quickEditPromptAlwaysFramed(presetKey, selectedObject) ==
    EDIT_PRESETS[presetKey].prompt
        \o ". The main subject for this operation is the selected '" \o selectedObject.label
        \o "' located within the normalized bounding box (y_min, x_min, y_max, x_max) "
        \o bboxString(selectedObject.boundingBox)
        \o ". Focus the effect on this object or the area around it as appropriate."

\* finalPrompt of handleQuickEdit
quickEditPrompt(presetKey, selectedObject) ==
    IF presetKey = "removeText"
    THEN "Remove the selected text '" \o selectedObject.label
            \o "' located within the normalized bounding box (y_min, x_min, y_max, x_max) "
            \o bboxString(selectedObject.boundingBox)
            \o ". Inpaint the area naturally to match the surroundings."
    ELSE EDIT_PRESETS[presetKey].prompt
            \o ". The main subject for this operation is the selected '" \o selectedObject.label
            \o "' located within the normalized bounding box (y_min, x_min, y_max, x_max) "
            \o bboxString(selectedObject.boundingBox)
            \o ". Focus the effect on this object or the area around it as appropriate."

\* actionPrompt of handleObjectAction('isolate')
isolatePrompt(obj) ==
    "Isolate the " \o obj.label \o " located within the bounding box (y_min, x_min, y_max, x_max) "
        \o bboxString(obj.boundingBox) \o ". Make the background transparent."

RECURSIVE objectsToRemove(_, _)
\* selectedObjects.map((obj, i) => `${i+1}. The object ...`).join('\n'), from entry i on
objectsToRemove(objs, i) ==
    IF i > Len(objs) THEN ""
    ELSE (IF i > 1 THEN "\n" ELSE "") \o Digit(i) \o ". The object '" \o objs[i].label
            \o "' located within bounding box " \o bboxString(objs[i].boundingBox)
            \o objectsToRemove(objs, i + 1)

\* removePrompt that lists the selected objects last selected first.
removePromptLastFirst(objs) ==
    "Remove the following objects from the image and inpaint their areas naturally to match the surroundings:\n"
        \o objectsToRemove([i \in 1..Len(objs) |-> objs[Len(objs) + 1 - i]], 1)

\* actionPrompt of handleObjectAction('remove')
removePrompt(objs) ==
    "Remove the following objects from the image and inpaint their areas naturally to match the surroundings:\n"
        \o objectsToRemove(objs, 1)

RECURSIVE objectsToTranslate(_, _)
objectsToTranslate(objs, i) ==
    IF i > Len(objs) THEN ""
    ELSE (IF i > 1 THEN "\n" ELSE "") \o Digit(i) \o ". Original Text: \"" \o objs[i].label
            \o "\", Bounding Box (y_min, x_min, y_max, x_max): " \o bboxString(objs[i].boundingBox)
            \o objectsToTranslate(objs, i + 1)

\* translationPrompt of handleTranslate
translationPrompt(objs) ==
    "Translate the text in the following regions from Chinese to Korean. Then, replace the original text with the Korean translation. Ensure the new text fits naturally in the same location and matches the original style (font, color, size) as closely as possible.\n\nHere are the text regions to translate:\n"
        \o objectsToTranslate(objs, 1) \o "\n"

\* ---------------------------------------------------------------- collaborators

\* The outcome of an awaited async function: it returns value, or it throws value.
Return(v) == [ok |-> TRUE, isError |-> FALSE, value |-> v]

\* throw new Error(message)
ThrowError(message) == [ok |-> FALSE, isError |-> TRUE, value |-> message]

\* A rejection with something that is not an Error object.
Reject(reason) == [ok |-> FALSE, isError |-> FALSE, value |-> reason]

\* err instanceof Error ? err.message : fallback
errMessage(outcome, fallback) == IF outcome.isError THEN outcome.value ELSE fallback

TextPart == [text |-> "Here is your image.", inlineData |-> null]

ImagePart(data) == [text |-> "", inlineData |-> Some([data |-> data])]

\* What ai.models.generateContent can answer to an image request: a transport
\* failure, no candidates, a candidate without an image part, a candidate with one.
ImageResponses ==
    { [transport |-> "error", candidates |-> <<>>],
      [transport |-> "ok", candidates |-> <<>>],
      [transport |-> "ok", candidates |-> << <<TextPart>> >>],
      [transport |-> "ok", candidates |-> << <<TextPart, ImagePart("RURJVEVE")>> >>] }

RECURSIVE firstInlineData(_, _)
\* for (const part of parts) if (part.inlineData && part.inlineData.data) return ...
firstInlineData(parts, i) ==
    IF i > Len(parts) THEN null
    ELSE IF parts[i].inlineData # null /\ parts[i].inlineData[1].data # ""
         THEN Some(parts[i].inlineData[1].data)
         ELSE firstInlineData(parts, i + 1)

\* The try block of editImage and of generateImageFromPrompt.
imageOf(response, noCandidates, noImage) ==
    IF response.transport = "error" THEN ThrowError("fetch failed")
    ELSE IF response.candidates = <<>> THEN ThrowError(noCandidates)
    ELSE LET found == firstInlineData(response.candidates[1], 1)
         IN  IF found # null THEN Return(found[1]) ELSE ThrowError(noImage)

\* editImage that returns the missing payload (undefined) instead of throwing.
editImageReturnsUndefined(response) ==
    LET tried == imageOf(response, "API returned no candidates.",
                         "No image data found in the API response.")
    IN  IF tried.ok THEN tried
        ELSE IF response.transport = "ok" THEN Return("undefined")
        ELSE ThrowError("Failed to edit image. The model may not be able to fulfill this request. Please try a different prompt or image.")

\* editImage whose catch rethrows the error it caught.
editImageRethrowsCause(response) ==
    imageOf(response, "API returned no candidates.", "No image data found in the API response.")

editImage(response) ==
    LET tried == imageOf(response, "API returned no candidates.",
                         "No image data found in the API response.")
    IN  IF tried.ok THEN tried
        ELSE ThrowError("Failed to edit image. The model may not be able to fulfill this request. Please try a different prompt or image.")

generateImageFromPrompt(response) ==
    LET tried == imageOf(response, "API returned no candidates for image generation.",
                         "No image data found in the generation response.")
    IN  IF tried.ok THEN tried
        ELSE ThrowError("Failed to generate image. The model may not be able to fulfill this request.")

\* response.text of a detection answer: blank, not JSON, or JSON (held parsed:
\* hasObjects says whether the parsed value has an `objects` key).
BlankText == [kind |-> "blank", hasObjects |-> FALSE, objects |-> <<>>]

MalformedText == [kind |-> "malformed", hasObjects |-> FALSE, objects |-> <<>>]

JsonText(hasObjects, objects) == [kind |-> "json", hasObjects |-> hasObjects, objects |-> objects]

DetectionResponses ==
    { [transport |-> "error", text |-> BlankText] }
        \cup { [transport |-> "ok", text |-> t] :
                 t \in { BlankText, MalformedText, JsonText(FALSE, <<>>) }
                         \cup { JsonText(TRUE, l) : l \in DetectionLists } }

\* The try block shared by detectObjects and detectWatermarkText.
detected(response) ==
    IF response.transport = "error" THEN ThrowError("fetch failed")
    ELSE IF response.text.kind = "blank" THEN Return(<<>>)
    ELSE IF response.text.kind = "malformed" THEN ThrowError("Unexpected token in JSON")
    ELSE IF response.text.hasObjects THEN Return(response.text.objects) ELSE Return(<<>>)

detectObjects(response) ==
    LET tried == detected(response)
    IN  IF tried.ok THEN tried
        ELSE ThrowError("Failed to detect objects in the image. The model may not have been able to identify any distinct items.")

detectWatermarkText(response) ==
    LET tried == detected(response)
    IN  IF tried.ok THEN tried
        ELSE ThrowError("Failed to detect watermark text in the image. The model may not have been able to identify any.")

\* utils/fileUtils fileToBase64: the file's data URI, or a read failure.
fileToBase64(file, readOk) ==
    IF readOk THEN Return(<<"data:" \o file.type \o ";base64", file.data>>)
    ELSE Reject("read error")

\* services/canvasService compositeImages: the composite's data URI, or a failure.
compositeImages(fg, bg, drawOk) ==
    IF drawOk THEN Return(<<"data:image/png;base64", "Q09NUE9TSVRF">>)
    ELSE ThrowError("Failed to load image")

\* ---------------------------------------------------------------- IEEE 754 binary64

(***************************************************************************)
(* The numbers of ImagePreview.handleResize are JavaScript Numbers: IEEE   *)
(* 754 binary64, every operation rounded to nearest, ties to even.  A      *)
(* natural number of any size is a sequence of bits, most significant      *)
(* first; a Number is [sign, m, e], standing for sign * m * 2^e with m of  *)
(* exactly 53 bits, or Zero.                                               *)
(***************************************************************************)
Precision == 53

RECURSIVE bitsOf(_)
\* The bits of the natural number n (none for 0).
bitsOf(n) == IF n = 0 THEN <<>> ELSE Append(bitsOf(n \div 2), n % 2)

\* Without leading zeros.
strip(b) ==
    LET ones == { i \in 1..Len(b) : b[i] = 1 }
    IN  IF ones = {} THEN <<>>
        ELSE SubSeq(b, CHOOSE i \in ones : \A j \in ones : i <= j, Len(b))

zeros(k) == [i \in 1..k |-> 0]

\* b * 2^k
shl(b, k) == IF b = <<>> THEN b ELSE b \o zeros(k)

\* -1, 0, 1 as a < b, a = b, a > b (a and b without leading zeros).
cmpBits(a, b) ==
    IF Len(a) # Len(b) THEN (IF Len(a) > Len(b) THEN 1 ELSE -1)
    ELSE LET differ == { i \in 1..Len(a) : a[i] # b[i] }
         IN  IF differ = {} THEN 0
             ELSE LET i == CHOOSE i \in differ : \A j \in differ : i <= j
                  IN  IF a[i] > b[i] THEN 1 ELSE -1

\* a + b
addBits(a, b) ==
    LET n == (IF Len(a) > Len(b) THEN Len(a) ELSE Len(b)) + 1
        x == zeros(n - Len(a)) \o a
        y == zeros(n - Len(b)) \o b
        carry(i) == \E j \in (i + 1)..n :
                        /\ x[j] = 1 /\ y[j] = 1
                        /\ \A l \in (i + 1)..(j - 1) : x[l] # y[l]
    IN  strip([i \in 1..n |-> (x[i] + y[i] + IF carry(i) THEN 1 ELSE 0) % 2])

\* a - b for a >= b.
subBits(a, b) ==
    LET n == Len(a)
        y == zeros(n - Len(b)) \o b
        borrow(i) == \E j \in (i + 1)..n :
                        /\ a[j] = 0 /\ y[j] = 1
                        /\ \A l \in (i + 1)..(j - 1) : a[l] = y[l]
    IN  strip([i \in 1..n |-> (a[i] + y[i] + IF borrow(i) THEN 1 ELSE 0) % 2])

RECURSIVE mulSmall(_, _)
\* b * k for a small natural number k.
mulSmall(b, k) ==
    IF k = 0 \/ b = <<>> THEN <<>>
    ELSE LET rest == shl(mulSmall(b, k \div 2), 1)
         IN  IF k % 2 = 1 THEN addBits(rest, b) ELSE rest

\* b + 1
incBits(b) == addBits(b, <<1>>)

\* One step of the long division by d: the remainder r takes one more bit of
\* the dividend (a zero): <<the quotient's next bit, the remainder after it>>.
divBit(r, d) ==
    LET r2 == shl(r, 1)
    IN  IF cmpBits(r2, d) >= 0 THEN <<1, subBits(r2, d)>> ELSE <<0, r2>>

RECURSIVE divBits(_, _, _)
\* 4 * steps more bits of the quotient of the long division by d, from the
\* remainder r on: <<the bits, the remainder after them>>.
divBits(r, d, steps) ==
    IF steps = 0 THEN << <<>>, r >>
    ELSE LET s1 == divBit(r, d)
             s2 == divBit(s1[2], d)
             s3 == divBit(s2[2], d)
             s4 == divBit(s3[2], d)
             rest == divBits(s4[2], d, steps - 1)
         IN  << <<s1[1], s2[1], s3[1], s4[1]>> \o rest[1], rest[2] >>

Zero == [sign |-> 0, m |-> <<>>, e |-> 0]

\* sign * n * 2^e rounded to a Number; inexact says that the exact value lies
\* above n * 2^e (and below (n + 1) * 2^e).
round(sign, n, e, inexact) ==
    LET b == strip(n)
    IN  IF b = <<>> THEN Zero
        ELSE IF Len(b) <= Precision
        THEN [sign |-> sign, m |-> b \o zeros(Precision - Len(b)), e |-> e - (Precision - Len(b))]
        ELSE LET kept == SubSeq(b, 1, Precision)
                 guard == b[Precision + 1]
                 sticky == inexact \/ \E i \in (Precision + 2)..Len(b) : b[i] = 1
                 up == guard = 1 /\ (sticky \/ kept[Precision] = 1)
                 m == IF up THEN incBits(kept) ELSE kept
                 cut == Len(b) - Precision
             IN  IF Len(m) > Precision
                 THEN [sign |-> sign, m |-> SubSeq(m, 1, Precision), e |-> e + cut + 1]
                 ELSE [sign |-> sign, m |-> m, e |-> e + cut]

\* The Number of a natural number below 2^53.
fromInt(n) == round(1, bitsOf(n), 0, FALSE)

\* x / y for positive Numbers: the long division of x.m by y.m, 56 bits
\* beyond the binary point, rounded.
fdiv(x, y) ==
    LET first == cmpBits(x.m, y.m) >= 0
        qr == divBits(IF first THEN subBits(x.m, y.m) ELSE x.m, y.m, 14)
    IN  round(1, <<IF first THEN 1 ELSE 0>> \o qr[1], x.e - y.e - 56, qr[2] # <<>>)

\* k * y for a positive Number y and a natural number k.
fmulInt(k, y) == round(1, mulSmall(y.m, k), y.e, FALSE)

\* -1, 0, 1 as the exact values compare: a * 2^ea against b * 2^eb.
cmpExact(a, ea, b, eb) ==
    LET e == IF ea < eb THEN ea ELSE eb
    IN  cmpBits(strip(shl(a, ea - e)), strip(shl(b, eb - e)))

\* The exact difference x - y of non-negative Numbers: <<sign, bits, exponent>>.
exactSub(x, y) ==
    LET e == IF x.e < y.e THEN x.e ELSE y.e
        a == strip(shl(x.m, x.e - e))
        b == strip(shl(y.m, y.e - e))
        c == cmpBits(a, b)
    IN  IF c = 0 THEN <<0, <<>>, 0>>
        ELSE IF c > 0 THEN <<1, subBits(a, b), e>> ELSE <<-1, subBits(b, a), e>>

\* x - y for non-negative Numbers.
fsub(x, y) == LET d == exactSub(x, y) IN round(d[1], d[2], d[3], FALSE)

\* x / 2
half(x) == IF x.sign = 0 THEN x ELSE [x EXCEPT !.e = @ - 1]

\* x > y for positive Numbers.
fgt(x, y) == cmpExact(x.m, x.e, y.m, y.e) > 0

\* ---------------------------------------------------------------- state

VARIABLES
    image,              \* main editor: null or [src, file]
    prompt,
    resultImage,        \* null or a data URI
    isLoading,
    error,              \* null or a message
    activePreset,       \* null or a preset key
    detectedObjects,
    selectedObjects,
    objectImage,        \* compositor: null or [src, file]
    backgroundImage,
    backgroundPrompt,
    compositorBgMode,
    generatedBackground,
    isGeneratingBg,
    calls,              \* the bag of awaited calls that have not answered yet
    imgRef,             \* an ImagePreview: null or what handleResize reads of its <img>
    renderInfo          \* an ImagePreview: the stored render geometry

editorVars ==
    <<image, prompt, resultImage, isLoading, error, activePreset, detectedObjects, selectedObjects>>

compositorVars ==
    <<objectImage, backgroundImage, backgroundPrompt, compositorBgMode, generatedBackground,
      isGeneratingBg>>

previewVars == <<imgRef, renderInfo>>

vars == <<editorVars, compositorVars, calls, previewVars>>

\* The render geometry an ImagePreview is constructed with.
NoGeometry == [width |-> Zero, height |-> Zero, top |-> Zero, left |-> Zero]

NoFile == [name |-> "", type |-> "", data |-> ""]

\* An awaited call: the handler that awaits it and the arguments it passed.
Call(handler) ==
    [handler |-> handler, file |-> NoFile, base64Data |-> "", mimeType |-> "", prompt |-> "",
     foreground |-> <<>>, background |-> <<>>]

Await(call) == calls' = calls (+) SetToBag({call})

Answered(call) == calls' = calls (-) SetToBag({call})

Awaiting(handler) == { c \in BagToSet(calls) : c.handler = handler }

ReadHandlers == {"handleFileChange", "handleObjectImageChange", "handleBackgroundImageChange"}

Reads == { c \in BagToSet(calls) : c.handler \in ReadHandlers }

MayRead == BagCardinality([c \in Reads |-> calls[c]]) < MaxReads

Init ==
    /\ image = null
    /\ prompt = ""
    /\ resultImage = null
    /\ isLoading = FALSE
    /\ error = null
    /\ activePreset = null
    /\ detectedObjects = <<>>
    /\ selectedObjects = <<>>
    /\ objectImage = null
    /\ backgroundImage = null
    /\ backgroundPrompt = "A photorealistic image of a beautiful beach at sunset"
    /\ compositorBgMode = "generate"
    /\ generatedBackground = null
    /\ isGeneratingBg = FALSE
    /\ calls = EmptyBag
    /\ imgRef = null
    /\ renderInfo = NoGeometry

\* ---------------------------------------------------------------- handlers, to their first await

handleFileChange(file) ==
    /\ MayRead
    /\ Await([Call("handleFileChange") EXCEPT !.file = file])
    /\ UNCHANGED <<editorVars, compositorVars>>

\* clearImage that also drops the compositor's image handles.
clearImageClearsLayers ==
    /\ image' = null
    /\ resultImage' = null
    /\ error' = null
    /\ detectedObjects' = <<>>
    /\ selectedObjects' = <<>>
    /\ objectImage' = null
    /\ backgroundImage' = null
    /\ generatedBackground' = null
    /\ UNCHANGED <<prompt, isLoading, activePreset, backgroundPrompt, compositorBgMode,
                   isGeneratingBg, calls>>

\* clearImage that forgets setSelectedObjects([]).
clearImageKeepsSelection ==
    /\ image' = null
    /\ resultImage' = null
    /\ error' = null
    /\ detectedObjects' = <<>>
    /\ UNCHANGED <<prompt, isLoading, activePreset, selectedObjects, compositorVars, calls>>

\* clearImage that also drops the pending flag, as if clearing cancelled the call.
clearImageResetsLoading ==
    /\ image' = null
    /\ resultImage' = null
    /\ error' = null
    /\ detectedObjects' = <<>>
    /\ selectedObjects' = <<>>
    /\ isLoading' = FALSE
    /\ UNCHANGED <<prompt, activePreset, compositorVars, calls>>

clearImage ==
    /\ image' = null
    /\ resultImage' = null
    /\ error' = null
    /\ detectedObjects' = <<>>
    /\ selectedObjects' = <<>>
    /\ UNCHANGED <<prompt, isLoading, activePreset, compositorVars, calls>>

setPrompt(value) ==
    /\ prompt' = value
    /\ UNCHANGED <<image, resultImage, isLoading, error, activePreset, detectedObjects,
                   selectedObjects, compositorVars, calls>>

\* handleGenerate with the prompt half of its precondition check lost: if (!image).
handleGenerateUncheckedPrompt(promptOverride) ==
    LET currentPrompt == IF promptOverride # "" THEN promptOverride ELSE prompt
    IN  IF image = null
        THEN /\ error' = Some("Please upload an image and provide a prompt.")
             /\ UNCHANGED <<isLoading, resultImage, calls>>
        ELSE /\ isLoading' = TRUE
             /\ error' = null
             /\ resultImage' = null
             /\ Await([Call("handleGenerate") EXCEPT
                         !.base64Data = split(image[1].src)[2],
                         !.mimeType = image[1].file.type,
                         !.prompt = currentPrompt])

\* handleGenerate up to the await of editImage; promptOverride "" is the missing
\* argument.  It says what becomes of error, isLoading, resultImage and calls.
handleGenerate(promptOverride) ==
    LET currentPrompt == IF promptOverride # "" THEN promptOverride ELSE prompt
    IN  IF image = null \/ currentPrompt = ""
        THEN /\ error' = Some("Please upload an image and provide a prompt.")
             /\ UNCHANGED <<isLoading, resultImage, calls>>
        ELSE /\ isLoading' = TRUE
             /\ error' = null
             /\ resultImage' = null
             /\ Await([Call("handleGenerate") EXCEPT
                         !.base64Data = split(image[1].src)[2],
                         !.mimeType = image[1].file.type,
                         !.prompt = currentPrompt])

\* onClick={() => handleGenerate()}
handleGenerateCustom ==
    /\ handleGenerate("")
    /\ UNCHANGED <<image, prompt, activePreset, detectedObjects, selectedObjects, compositorVars>>

\* handleQuickEdit that rejects only the empty selection and edits the first of
\* several selected objects.
handleQuickEditFirstOfMany(presetKey) ==
    IF image = null
    THEN /\ error' = Some("Please upload an image first.")
         /\ UNCHANGED <<image, prompt, resultImage, isLoading, activePreset, detectedObjects,
                        selectedObjects, compositorVars, calls>>
    ELSE IF Len(selectedObjects) = 0
    THEN /\ error' = Some("Please select exactly one object for this action.")
         /\ UNCHANGED <<image, prompt, resultImage, isLoading, activePreset, detectedObjects,
                        selectedObjects, compositorVars, calls>>
    ELSE /\ activePreset' = Some(presetKey)
         /\ handleGenerate(quickEditPrompt(presetKey, selectedObjects[1]))
         /\ UNCHANGED <<image, prompt, detectedObjects, selectedObjects, compositorVars>>

handleQuickEdit(presetKey) ==
    IF image = null
    THEN /\ error' = Some("Please upload an image first.")
         /\ UNCHANGED <<image, prompt, resultImage, isLoading, activePreset, detectedObjects,
                        selectedObjects, compositorVars, calls>>
    ELSE IF Len(selectedObjects) # 1
    THEN /\ error' = Some("Please select exactly one object for this action.")
         /\ UNCHANGED <<image, prompt, resultImage, isLoading, activePreset, detectedObjects,
                        selectedObjects, compositorVars, calls>>
    ELSE /\ activePreset' = Some(presetKey)
         /\ handleGenerate(quickEditPrompt(presetKey, selectedObjects[1]))
         /\ UNCHANGED <<image, prompt, detectedObjects, selectedObjects, compositorVars>>

\* handleDetect that forgets setSelectedObjects([]).
handleDetectKeepsSelection(handler) ==
    IF image = null
    THEN /\ error' = Some("Please upload an image first.")
         /\ UNCHANGED <<image, prompt, resultImage, isLoading, activePreset, detectedObjects,
                        selectedObjects, compositorVars, calls>>
    ELSE /\ isLoading' = TRUE
         /\ error' = null
         /\ resultImage' = null
         /\ detectedObjects' = <<>>
         /\ Await([Call(handler) EXCEPT
                     !.base64Data = split(image[1].src)[2],
                     !.mimeType = image[1].file.type])
         /\ UNCHANGED <<image, prompt, activePreset, selectedObjects, compositorVars>>

\* handleDetectObjects and handleDetectText up to their await; they differ in the
\* detector they call.
handleDetect(handler) ==
    IF image = null
    THEN /\ error' = Some("Please upload an image first.")
         /\ UNCHANGED <<image, prompt, resultImage, isLoading, activePreset, detectedObjects,
                        selectedObjects, compositorVars, calls>>
    ELSE /\ isLoading' = TRUE
         /\ error' = null
         /\ resultImage' = null
         /\ selectedObjects' = <<>>
         /\ detectedObjects' = <<>>
         /\ Await([Call(handler) EXCEPT
                     !.base64Data = split(image[1].src)[2],
                     !.mimeType = image[1].file.type])
         /\ UNCHANGED <<image, prompt, activePreset, compositorVars>>

handleDetectObjects == handleDetect("handleDetectObjects")

handleDetectText == handleDetect("handleDetectText")

handleObjectAction(action) ==
    IF Len(selectedObjects) = 0
    THEN UNCHANGED <<editorVars, compositorVars, calls>>
    ELSE IF action = "isolate" /\ Len(selectedObjects) > 1
    THEN /\ error' = Some("Please select only one object to isolate.")
         /\ UNCHANGED <<image, prompt, resultImage, isLoading, activePreset, detectedObjects,
                        selectedObjects, compositorVars, calls>>
    ELSE /\ handleGenerate(IF action = "isolate"
                           THEN isolatePrompt(selectedObjects[1])
                           ELSE removePrompt(selectedObjects))
         /\ UNCHANGED <<image, prompt, activePreset, detectedObjects, selectedObjects,
                        compositorVars>>

handleObjectSelect(object) ==
    /\ selectedObjects' = toggle(selectedObjects, object)
    /\ UNCHANGED <<image, prompt, resultImage, isLoading, error, activePreset, detectedObjects,
                   compositorVars, calls>>

handleTranslate ==
    IF Len(selectedObjects) = 0
    THEN UNCHANGED <<editorVars, compositorVars, calls>>
    ELSE /\ handleGenerate(translationPrompt(selectedObjects))
         /\ UNCHANGED <<image, prompt, activePreset, detectedObjects, selectedObjects,
                        compositorVars>>

handleObjectImageChange(file) ==
    /\ MayRead
    /\ Await([Call("handleObjectImageChange") EXCEPT !.file = file])
    /\ UNCHANGED <<editorVars, compositorVars>>

handleBackgroundImageChange(file) ==
    /\ MayRead
    /\ Await([Call("handleBackgroundImageChange") EXCEPT !.file = file])
    /\ UNCHANGED <<editorVars, compositorVars>>

\* onClear={() => setObjectImage(null)}
clearObjectImage ==
    /\ objectImage' = null
    /\ UNCHANGED <<editorVars, backgroundImage, backgroundPrompt, compositorBgMode,
                   generatedBackground, isGeneratingBg, calls>>

\* onClear={() => setBackgroundImage(null)}
clearBackgroundImage ==
    /\ backgroundImage' = null
    /\ UNCHANGED <<editorVars, objectImage, backgroundPrompt, compositorBgMode,
                   generatedBackground, isGeneratingBg, calls>>

\* onClear={() => setGeneratedBackground(null)}
clearGeneratedBackground ==
    /\ generatedBackground' = null
    /\ UNCHANGED <<editorVars, objectImage, backgroundImage, backgroundPrompt, compositorBgMode,
                   isGeneratingBg, calls>>

setCompositorBgMode(mode) ==
    /\ compositorBgMode' = mode
    /\ UNCHANGED <<editorVars, objectImage, backgroundImage, backgroundPrompt,
                   generatedBackground, isGeneratingBg, calls>>

setBackgroundPrompt(value) ==
    /\ backgroundPrompt' = value
    /\ UNCHANGED <<editorVars, objectImage, backgroundImage, compositorBgMode,
                   generatedBackground, isGeneratingBg, calls>>

handleGenerateBackground ==
    IF backgroundPrompt = ""
    THEN /\ error' = Some("Please enter a prompt for the background.")
         /\ UNCHANGED <<image, prompt, resultImage, isLoading, activePreset, detectedObjects,
                        selectedObjects, compositorVars, calls>>
    ELSE /\ isGeneratingBg' = TRUE
         /\ error' = null
         /\ Await([Call("handleGenerateBackground") EXCEPT !.prompt = backgroundPrompt])
         /\ UNCHANGED <<image, prompt, resultImage, isLoading, activePreset, detectedObjects,
                        selectedObjects, objectImage, backgroundImage, backgroundPrompt,
                        compositorBgMode, generatedBackground>>

\* backgroundImage?.src || generatedBackground
backgroundSrc == IF backgroundImage # null THEN Some(backgroundImage[1].src) ELSE generatedBackground

\* handleComposite that clears the last result before it checks its layers.
handleCompositeClearsFirst ==
    IF objectImage = null \/ backgroundSrc = null
    THEN /\ error' = Some("Please provide both an object and a background image.")
         /\ resultImage' = null
         /\ UNCHANGED <<image, prompt, isLoading, activePreset, detectedObjects,
                        selectedObjects, compositorVars, calls>>
    ELSE /\ isLoading' = TRUE
         /\ error' = null
         /\ resultImage' = null
         /\ Await([Call("handleComposite") EXCEPT
                     !.foreground = objectImage[1].src,
                     !.background = backgroundSrc[1]])
         /\ UNCHANGED <<image, prompt, activePreset, detectedObjects, selectedObjects,
                        compositorVars>>

handleComposite ==
    IF objectImage = null \/ backgroundSrc = null
    THEN /\ error' = Some("Please provide both an object and a background image.")
         /\ UNCHANGED <<image, prompt, resultImage, isLoading, activePreset, detectedObjects,
                        selectedObjects, compositorVars, calls>>
    ELSE /\ isLoading' = TRUE
         /\ error' = null
         /\ resultImage' = null
         /\ Await([Call("handleComposite") EXCEPT
                     !.foreground = objectImage[1].src,
                     !.background = backgroundSrc[1]])
         /\ UNCHANGED <<image, prompt, activePreset, detectedObjects, selectedObjects,
                        compositorVars>>

\* ---------------------------------------------------------------- handlers, after their await

\* `data:image/png;base64,${base64}`
pngDataUri(base64) == <<"data:image/png;base64", base64>>

\* handleFileChange whose catch also resets the editor, as clearImage does.
handleFileChangeResumeResetsOnFailure(call, readOk) ==
    LET read == fileToBase64(call.file, readOk)
    IN  /\ IF read.ok
           THEN /\ image' = Some([src |-> read.value, file |-> call.file])
                /\ error' = null
           ELSE /\ image' = null
                /\ error' = Some("Failed to read the image file.")
        /\ resultImage' = null
        /\ detectedObjects' = <<>>
        /\ selectedObjects' = <<>>
        /\ Answered(call)
        /\ UNCHANGED <<prompt, isLoading, activePreset, compositorVars>>

\* handleFileChange from the answer of fileToBase64 on.
handleFileChangeResume(call, readOk) ==
    LET read == fileToBase64(call.file, readOk)
    IN  /\ IF read.ok
           THEN /\ image' = Some([src |-> read.value, file |-> call.file])
                /\ resultImage' = null
                /\ error' = null
                /\ detectedObjects' = <<>>
                /\ selectedObjects' = <<>>
           ELSE /\ error' = Some("Failed to read the image file.")
                /\ UNCHANGED <<image, resultImage, detectedObjects, selectedObjects>>
        /\ Answered(call)
        /\ UNCHANGED <<prompt, isLoading, activePreset, compositorVars>>

\* handleGenerate with setIsLoading(false) at the end of the try block instead
\* of in a finally block.
handleGenerateResumeNoFinally(call, response) ==
    LET edited == editImage(response)
    IN  /\ IF edited.ok
           THEN /\ resultImage' = Some(pngDataUri(edited.value))
                /\ isLoading' = FALSE
                /\ activePreset' = null
                /\ UNCHANGED error
           ELSE /\ error' = Some(errMessage(edited, "An unknown error occurred."))
                /\ UNCHANGED <<resultImage, isLoading, activePreset>>
        /\ Answered(call)
        /\ UNCHANGED <<image, prompt, detectedObjects, selectedObjects, compositorVars>>

\* handleGenerate whose finally block forgets setActivePreset(null).
handleGenerateResumeKeepsPreset(call, response) ==
    LET edited == editImage(response)
    IN  /\ IF edited.ok
           THEN /\ resultImage' = Some(pngDataUri(edited.value))
                /\ UNCHANGED error
           ELSE /\ error' = Some(errMessage(edited, "An unknown error occurred."))
                /\ UNCHANGED resultImage
        /\ isLoading' = FALSE
        /\ Answered(call)
        /\ UNCHANGED <<image, prompt, activePreset, detectedObjects, selectedObjects,
                       compositorVars>>

\* handleGenerate that, after a failed edit, reports it and awaits the same call again.
handleGenerateResumeRetries(call, response) ==
    LET edited == editImage(response)
    IN  IF edited.ok
        THEN /\ resultImage' = Some(pngDataUri(edited.value))
             /\ isLoading' = FALSE
             /\ activePreset' = null
             /\ Answered(call)
             /\ UNCHANGED <<image, prompt, error, detectedObjects, selectedObjects,
                            compositorVars>>
        ELSE /\ error' = Some(errMessage(edited, "An unknown error occurred."))
             /\ UNCHANGED <<image, prompt, resultImage, isLoading, activePreset, detectedObjects,
                            selectedObjects, compositorVars, calls>>

\* handleGenerate from the answer of editImage on: try tail, catch, finally.
handleGenerateResume(call, response) ==
    LET edited == editImage(response)
    IN  /\ IF edited.ok
           THEN /\ resultImage' = Some(pngDataUri(edited.value))
                /\ UNCHANGED error
           ELSE /\ error' = Some(errMessage(edited, "An unknown error occurred."))
                /\ UNCHANGED resultImage
        /\ isLoading' = FALSE
        /\ activePreset' = null
        /\ Answered(call)
        /\ UNCHANGED <<image, prompt, detectedObjects, selectedObjects, compositorVars>>

\* handleDetectObjects / handleDetectText from the answer of the detector on.
handleDetectResume(call, response) ==
    LET objects == IF call.handler = "handleDetectObjects"
                   THEN detectObjects(response)
                   ELSE detectWatermarkText(response)
    IN  /\ IF objects.ok
           THEN /\ detectedObjects' = objects.value
                /\ UNCHANGED error
           ELSE /\ error' = Some(errMessage(objects, "An unknown error occurred."))
                /\ UNCHANGED detectedObjects
        /\ isLoading' = FALSE
        /\ Answered(call)
        /\ UNCHANGED <<image, prompt, resultImage, activePreset, selectedObjects, compositorVars>>

\* handleObjectImageChange from the answer of fileToBase64 on; a failed read is
\* a rejection nobody catches and leaves the state as it is.
handleObjectImageChangeResume(call, readOk) ==
    LET read == fileToBase64(call.file, readOk)
    IN  /\ IF read.ok
           THEN objectImage' = Some([src |-> read.value, file |-> call.file])
           ELSE UNCHANGED objectImage
        /\ Answered(call)
        /\ UNCHANGED <<editorVars, backgroundImage, backgroundPrompt, compositorBgMode,
                       generatedBackground, isGeneratingBg>>

handleBackgroundImageChangeResume(call, readOk) ==
    LET read == fileToBase64(call.file, readOk)
    IN  /\ IF read.ok
           THEN /\ backgroundImage' = Some([src |-> read.value, file |-> call.file])
                /\ generatedBackground' = null
           ELSE UNCHANGED <<backgroundImage, generatedBackground>>
        /\ Answered(call)
        /\ UNCHANGED <<editorVars, objectImage, backgroundPrompt, compositorBgMode,
                       isGeneratingBg>>

\* A continuation of handleGenerateBackground without setBackgroundImage(null).
handleGenerateBackgroundResumeKeepsUpload(call, response) ==
    LET generated == generateImageFromPrompt(response)
    IN  /\ IF generated.ok
           THEN /\ generatedBackground' = Some(pngDataUri(generated.value))
                /\ UNCHANGED <<backgroundImage, error>>
           ELSE /\ error' = Some(errMessage(generated, "Failed to generate background."))
                /\ UNCHANGED <<generatedBackground, backgroundImage>>
        /\ isGeneratingBg' = FALSE
        /\ Answered(call)
        /\ UNCHANGED <<image, prompt, resultImage, isLoading, activePreset, detectedObjects,
                       selectedObjects, objectImage, backgroundPrompt, compositorBgMode>>

handleGenerateBackgroundResume(call, response) ==
    LET generated == generateImageFromPrompt(response)
    IN  /\ IF generated.ok
           THEN /\ generatedBackground' = Some(pngDataUri(generated.value))
                /\ backgroundImage' = null
                /\ UNCHANGED error
           ELSE /\ error' = Some(errMessage(generated, "Failed to generate background."))
                /\ UNCHANGED <<generatedBackground, backgroundImage>>
        /\ isGeneratingBg' = FALSE
        /\ Answered(call)
        /\ UNCHANGED <<image, prompt, resultImage, isLoading, activePreset, detectedObjects,
                       selectedObjects, objectImage, backgroundPrompt, compositorBgMode>>

\* A continuation of handleComposite without the finally block.
handleCompositeResumeNoFinally(call, drawOk) ==
    LET result == compositeImages(call.foreground, call.background, drawOk)
    IN  /\ IF result.ok
           THEN /\ resultImage' = Some(result.value)
                /\ UNCHANGED error
           ELSE /\ error' = Some(errMessage(result, "Failed to composite images."))
                /\ UNCHANGED resultImage
        /\ Answered(call)
        /\ UNCHANGED <<image, prompt, isLoading, activePreset, detectedObjects, selectedObjects,
                       compositorVars>>

handleCompositeResume(call, drawOk) ==
    LET result == compositeImages(call.foreground, call.background, drawOk)
    IN  /\ IF result.ok
           THEN /\ resultImage' = Some(result.value)
                /\ UNCHANGED error
           ELSE /\ error' = Some(errMessage(result, "Failed to composite images."))
                /\ UNCHANGED resultImage
        /\ isLoading' = FALSE
        /\ Answered(call)
        /\ UNCHANGED <<image, prompt, activePreset, detectedObjects, selectedObjects,
                       compositorVars>>

\* ---------------------------------------------------------------- controls

\* The `disabled` attribute / render condition of each control of the page.
fileInputShown == image = null

clearShown == image # null

promptEnabled == ~(image = null \/ isLoading)

generateEnabled == ~(image = null \/ prompt = "" \/ isLoading)

quickActionEnabled == ~(image = null \/ isLoading \/ Len(selectedObjects) > 1)

detectEnabled == ~(image = null \/ isLoading)

isolateEnabled == ~(Len(selectedObjects) # 1 \/ isLoading)

removeEnabled == ~(Len(selectedObjects) = 0 \/ isLoading)

translateEnabled == ~(Len(selectedObjects) = 0 \/ isLoading)

\* The overlay boxes: one per detected object, on the preview of the main image.
boxShown(object) ==
    /\ image # null
    /\ \E i \in 1..Len(detectedObjects) : detectedObjects[i] = object

objectInputShown == objectImage = null

backgroundInputShown == compositorBgMode = "upload" /\ backgroundImage = null

backgroundClearShown == compositorBgMode = "upload" /\ backgroundImage # null

generatedClearShown == compositorBgMode = "generate" /\ generatedBackground # null

backgroundPromptShown == compositorBgMode = "generate"

generateBackgroundEnabled == compositorBgMode = "generate" /\ ~isGeneratingBg

compositeEnabled ==
    ~(objectImage = null \/ (backgroundImage = null /\ generatedBackground = null) \/ isLoading)

\* ---------------------------------------------------------------- actions

(***************************************************************************)
(* One action per event.  An input, a clear button or an overlay box fires *)
(* only while it is rendered, the prompt box only while it is enabled.     *)
(* The operations that contact a collaborator fire whenever their pending  *)
(* flag (isLoading, isGeneratingBg) is clear: the flag is the part of the  *)
(* `disabled` attribute the handler does not check again itself, the rest  *)
(* (no image, no prompt, the selection count) the handler answers with its *)
(* own precondition branch, which is thereby exercised.                    *)
(***************************************************************************)
FileChange == \E file \in Files : fileInputShown /\ handleFileChange(file)
    /\ UNCHANGED previewVars

ClearImage == clearShown /\ clearImage
    /\ UNCHANGED previewVars

PromptChange == \E value \in Prompts : promptEnabled /\ setPrompt(value)
    /\ UNCHANGED previewVars

Generate == ~isLoading /\ handleGenerateCustom
    /\ UNCHANGED previewVars

QuickEdit == \E presetKey \in PresetInputs : ~isLoading /\ handleQuickEdit(presetKey)
    /\ UNCHANGED previewVars

DetectObjects == ~isLoading /\ handleDetectObjects
    /\ UNCHANGED previewVars

DetectText == ~isLoading /\ handleDetectText
    /\ UNCHANGED previewVars

Isolate == ~isLoading /\ handleObjectAction("isolate")
    /\ UNCHANGED previewVars

Remove == ~isLoading /\ handleObjectAction("remove")
    /\ UNCHANGED previewVars

ObjectSelect == \E object \in Regions : boxShown(object) /\ handleObjectSelect(object)
    /\ UNCHANGED previewVars

Translate == ~isLoading /\ handleTranslate
    /\ UNCHANGED previewVars

ObjectImageChange == \E file \in LayerFiles : objectInputShown /\ handleObjectImageChange(file)
    /\ UNCHANGED previewVars

BackgroundImageChange ==
    \E file \in LayerFiles : backgroundInputShown /\ handleBackgroundImageChange(file)
    /\ UNCHANGED previewVars

ClearObjectImage == objectImage # null /\ clearObjectImage
    /\ UNCHANGED previewVars

ClearBackgroundImage == backgroundClearShown /\ clearBackgroundImage
    /\ UNCHANGED previewVars

ClearGeneratedBackground == generatedClearShown /\ clearGeneratedBackground
    /\ UNCHANGED previewVars

BgModeChange == \E mode \in {"upload", "generate"} : setCompositorBgMode(mode)
    /\ UNCHANGED previewVars

BackgroundPromptChange ==
    \E value \in BackgroundPrompts : backgroundPromptShown /\ setBackgroundPrompt(value)
    /\ UNCHANGED previewVars

GenerateBackground == generateBackgroundEnabled /\ handleGenerateBackground
    /\ UNCHANGED previewVars

Composite == ~isLoading /\ handleComposite
    /\ UNCHANGED previewVars

FileChangeResume ==
    \E call \in Awaiting("handleFileChange"), readOk \in BOOLEAN :
        handleFileChangeResume(call, readOk)
    /\ UNCHANGED previewVars

GenerateResume ==
    \E call \in Awaiting("handleGenerate"), response \in ImageResponses :
        handleGenerateResume(call, response)
    /\ UNCHANGED previewVars

DetectResume ==
    \E call \in Awaiting("handleDetectObjects") \cup Awaiting("handleDetectText"),
       response \in DetectionResponses :
        handleDetectResume(call, response)
    /\ UNCHANGED previewVars

ObjectImageChangeResume ==
    \E call \in Awaiting("handleObjectImageChange"), readOk \in BOOLEAN :
        handleObjectImageChangeResume(call, readOk)
    /\ UNCHANGED previewVars

BackgroundImageChangeResume ==
    \E call \in Awaiting("handleBackgroundImageChange"), readOk \in BOOLEAN :
        handleBackgroundImageChangeResume(call, readOk)
    /\ UNCHANGED previewVars

GenerateBackgroundResume ==
    \E call \in Awaiting("handleGenerateBackground"), response \in ImageResponses :
        handleGenerateBackgroundResume(call, response)
    /\ UNCHANGED previewVars

CompositeResume ==
    \E call \in Awaiting("handleComposite"), drawOk \in BOOLEAN :
        handleCompositeResume(call, drawOk)
    /\ UNCHANGED previewVars

Next ==
    \/ FileChange
    \/ ClearImage
    \/ PromptChange
    \/ Generate
    \/ QuickEdit
    \/ DetectObjects
    \/ DetectText
    \/ Isolate
    \/ Remove
    \/ ObjectSelect
    \/ Translate
    \/ ObjectImageChange
    \/ BackgroundImageChange
    \/ ClearObjectImage
    \/ ClearBackgroundImage
    \/ ClearGeneratedBackground
    \/ BgModeChange
    \/ BackgroundPromptChange
    \/ GenerateBackground
    \/ Composite
    \/ FileChangeResume
    \/ GenerateResume
    \/ DetectResume
    \/ ObjectImageChangeResume
    \/ BackgroundImageChangeResume
    \/ GenerateBackgroundResume
    \/ CompositeResume

Spec == Init /\ [][Next]_vars

\* Every awaited backend call and every composite drawing is answered in the
\* end: the promise settles, with a value or with a rejection.
SpecLive ==
    /\ Spec
    /\ WF_vars(GenerateResume)
    /\ WF_vars(DetectResume)
    /\ WF_vars(GenerateBackgroundResume)
    /\ WF_vars(CompositeResume)

\* ---------------------------------------------------------------- ImagePreview

(***************************************************************************)
(* One ImagePreview from its construction on.  Its state is its own: the   *)
(* ref to its <img> and renderInfo; nothing of the App's state is read by  *)
(* handleResize, and no handler of the App writes renderInfo.  The layout  *)
(* sizes are whole pixels; a natural size of 0 is an image that is not     *)
(* loaded, or one without an intrinsic size.                               *)
(***************************************************************************)
ClientWidths == {3, 187}

ClientHeights == {3, 187}

NaturalWidths == {0, 3}

NaturalHeights == {0, 3, 187}

\* What handleResize reads of the <img> element.
Images ==
    [clientWidth : ClientWidths, clientHeight : ClientHeights,
     naturalWidth : NaturalWidths, naturalHeight : NaturalHeights]

\* handleResize that stores an empty rectangle for an image of unknown size.
handleResizeClearsGeometry(current) ==
    IF current = null THEN UNCHANGED renderInfo
    ELSE LET img == current[1]
         IN  IF img.naturalWidth = 0 \/ img.naturalHeight = 0 THEN renderInfo' = NoGeometry
             ELSE LET clientWidth == fromInt(img.clientWidth)
                      clientHeight == fromInt(img.clientHeight)
                      naturalRatio == fdiv(fromInt(img.naturalWidth), fromInt(img.naturalHeight))
                      clientRatio == fdiv(clientWidth, clientHeight)
                  IN  IF fgt(naturalRatio, clientRatio)
                      THEN LET height == fdiv(clientWidth, naturalRatio)
                           IN  renderInfo' =
                                   [width |-> clientWidth, height |-> height,
                                    top |-> half(fsub(clientHeight, height)), left |-> Zero]
                      ELSE LET width == fmulInt(img.clientHeight, naturalRatio)
                           IN  renderInfo' =
                                   [width |-> width, height |-> clientHeight,
                                    top |-> Zero, left |-> half(fsub(clientWidth, width))]

\* handleResize, run with imgRef.current = current.
handleResize(current) ==
    IF current = null THEN UNCHANGED renderInfo
    ELSE LET img == current[1]
         IN  IF img.naturalWidth = 0 \/ img.naturalHeight = 0 THEN UNCHANGED renderInfo
             ELSE LET clientWidth == fromInt(img.clientWidth)
                      clientHeight == fromInt(img.clientHeight)
                      naturalRatio == fdiv(fromInt(img.naturalWidth), fromInt(img.naturalHeight))
                      clientRatio == fdiv(clientWidth, clientHeight)
                  IN  IF fgt(naturalRatio, clientRatio)
                      THEN LET height == fdiv(clientWidth, naturalRatio)
                           IN  renderInfo' =
                                   [width |-> clientWidth, height |-> height,
                                    top |-> half(fsub(clientHeight, height)), left |-> Zero]
                      ELSE LET width == fmulInt(img.clientHeight, naturalRatio)
                           IN  renderInfo' =
                                   [width |-> width, height |-> clientHeight,
                                    top |-> Zero, left |-> half(fsub(clientWidth, width))]

\* The layout effect after the first render: the ref is attached, the
\* ResizeObserver reports the element, and handleResize runs (at once for a
\* complete image too).
Mount ==
    /\ imgRef = null
    /\ \E img \in Images : imgRef' = Some(img)
    /\ handleResize(imgRef')
    /\ UNCHANGED <<editorVars, compositorVars, calls>>

\* The src prop changes: the element starts loading the new image, the
\* effect runs again and its new ResizeObserver reports the element.
SrcChange ==
    /\ imgRef # null
    /\ imgRef' = Some([imgRef[1] EXCEPT !.naturalWidth = 0, !.naturalHeight = 0])
    /\ handleResize(imgRef')
    /\ UNCHANGED <<editorVars, compositorVars, calls>>

\* The load event of the element.
ImageLoad ==
    /\ imgRef # null
    /\ \E naturalWidth \in NaturalWidths, naturalHeight \in NaturalHeights :
           imgRef' = Some([imgRef[1] EXCEPT !.naturalWidth = naturalWidth,
                                            !.naturalHeight = naturalHeight])
    /\ handleResize(imgRef')
    /\ UNCHANGED <<editorVars, compositorVars, calls>>

\* The ResizeObserver reports a new size of the element.
ElementResize ==
    /\ imgRef # null
    /\ \E clientWidth \in ClientWidths, clientHeight \in ClientHeights :
           imgRef' = Some([imgRef[1] EXCEPT !.clientWidth = clientWidth,
                                            !.clientHeight = clientHeight])
    /\ handleResize(imgRef')
    /\ UNCHANGED <<editorVars, compositorVars, calls>>

NextPreview ==
    \/ Mount
    \/ SrcChange
    \/ ImageLoad
    \/ ElementResize

SpecPreview == Init /\ [][NextPreview]_vars

\* ---------------------------------------------------------------- vocabulary of the properties

\* Awaited calls of the given handlers in a bag of calls.
Outstanding(bag, handlers) ==
    LET of == { c \in BagToSet(bag) : c.handler \in handlers }
    IN  BagCardinality([c \in of |-> bag[c]])

\* The operations that share isLoading, and the one that has isGeneratingBg.
EditorHandlers == {"handleGenerate", "handleDetectObjects", "handleDetectText", "handleComposite"}

BackgroundHandlers == {"handleGenerateBackground"}

PreconditionMessages ==
    { "Please upload an image and provide a prompt.",
      "Please upload an image first.",
      "Please enter a prompt for the background." }

\* Equality of regions as the data model defines it: label and four coordinates.
sameRegion(a, b) ==
    /\ a.label = b.label
    /\ \A key \in {"x_min", "y_min", "x_max", "y_max"} :
            Get(a.boundingBox, key) = Get(b.boundingBox, key)

contains(selection, region) == \E i \in 1..Len(selection) : sameRegion(selection[i], region)

without(selection, region) ==
    LET differs(o) == ~sameRegion(o, region) IN SelectSeq(selection, differs)

\* The call was issued for an image that is no longer the active one.
stale(call) == image = null \/ split(image[1].src)[2] # call.base64Data

\* The calls a step newly awaits.
issued(before, after) ==
    IF after = before THEN {}
    ELSE { c \in BagToSet(after) : CopiesIn(c, after) > CopiesIn(c, before) }

\* The calls whose answer a step takes.
answered(before, after) ==
    IF after = before THEN {}
    ELSE { c \in BagToSet(before) : CopiesIn(c, after) < CopiesIn(c, before) }

\* sub occurs in s.
includes(s, sub) ==
    \E i \in 1..(Len(s) - Len(sub) + 1) : SubSeq(s, i, i + Len(sub) - 1) = sub

\* The coordinates of the modelled boxes written with exactly four decimals.
Fixed4 ==
    ( 0 :> "0.0000" ) @@ ( 10000 :> "0.1000" ) @@ ( 12346 :> "0.1235" ) @@ ( 20000 :> "0.2000" )
        @@ ( 30000 :> "0.3000" ) @@ ( 40000 :> "0.4000" ) @@ ( 56789 :> "0.5679" )
        @@ ( 100000 :> "1.0000" )

\* The bounding-box literal of a region: y_min, x_min, y_max, x_max.
literal(region) ==
    "[" \o Fixed4[Get(region.boundingBox, "y_min")] \o ", "
        \o Fixed4[Get(region.boundingBox, "x_min")] \o ", "
        \o Fixed4[Get(region.boundingBox, "y_max")] \o ", "
        \o Fixed4[Get(region.boundingBox, "x_max")] \o "]"

\* The positions at which sub occurs in s.
at(s, sub) == { i \in 1..(Len(s) - Len(sub) + 1) : SubSeq(s, i, i + Len(sub) - 1) = sub }

\* Entry i of a remove prompt and of a translate prompt, for a region.
removeEntry(i, region) ==
    Digits[i + 1] \o ". The object '" \o region.label \o "' located within bounding box "
        \o literal(region)

translateEntry(i, region) ==
    Digits[i + 1] \o ". Original Text: \"" \o region.label
        \o "\", Bounding Box (y_min, x_min, y_max, x_max): " \o literal(region)

RECURSIVE lines(_)
\* The entries, one per line.
lines(entries) ==
    IF entries = <<>> THEN ""
    ELSE IF Len(entries) = 1 THEN entries[1]
    ELSE entries[1] \o "\n" \o lines(Tail(entries))

\* text is: the heading, then exactly the entries in their order, one per
\* line, then the ending.
listsInOrder(text, heading, entries, ending) == text = heading \o lines(entries) \o ending

\* The prompt of a preset edit of one region: the text-removal template for the
\* removeText preset, the preset's instruction and the main-subject framing for
\* the others.
presetEditText(presetKey, region) ==
    LET where == "' located within the normalized bounding box (y_min, x_min, y_max, x_max) "
                    \o literal(region)
    IN  IF presetKey = "removeText"
        THEN "Remove the selected text '" \o region.label \o where
                \o ". Inpaint the area naturally to match the surroundings."
        ELSE EDIT_PRESETS[presetKey].prompt
                \o ". The main subject for this operation is the selected '" \o region.label
                \o where
                \o ". Focus the effect on this object or the area around it as appropriate."

\* The operations that call the backend.
RemoteHandlers ==
    {"handleGenerate", "handleDetectObjects", "handleDetectText", "handleGenerateBackground"}

\* The causes for which an edit call fails: the transport, no candidates, no
\* image payload in the first candidate.
editFails(response) ==
    \/ response.transport = "error"
    \/ response.candidates = <<>>
    \/ \A i \in 1..Len(response.candidates[1]) : response.candidates[1][i].inlineData = null

\* The payload of an image answer: the data of its first candidate's first
\* part that holds inline data.
payload(response) ==
    LET parts == response.candidates[1]
        first == CHOOSE i \in 1..Len(parts) :
                    /\ parts[i].inlineData # null
                    /\ \A j \in 1..(i - 1) : parts[j].inlineData = null
    IN  parts[first].inlineData[1].data

\* ---------------------------------------------------------------- properties

\* C1: a main-editor operation (custom generate, preset edit, object detection,
\* text detection) started with no active image, and a generation (custom, or of
\* a background) started with an empty prompt, awaits no call and leaves a
\* precondition message in error.
C1_PreconditionFailsLocally ==
    [][ ( \/ image = null /\ (Generate \/ QuickEdit \/ DetectObjects \/ DetectText)
          \/ prompt = "" /\ Generate
          \/ backgroundPrompt = "" /\ GenerateBackground )
        => /\ calls' = calls
           /\ error' # null
           /\ error'[1] \in PreconditionMessages ]_vars

\* A detection was asked for without an image: the message is up, nothing is awaited.
C1_Witness ==
    /\ image = null
    /\ error = Some("Please upload an image first.")
    /\ calls = EmptyBag

\* C2: at most one call is outstanding among the operations that share
\* isLoading (edit, detection, composite), and at most one background generation.
C2_SingleFlight ==
    /\ Outstanding(calls, EditorHandlers) <= 1
    /\ Outstanding(calls, BackgroundHandlers) <= 1

\* Both panels have their one call outstanding.
C2_Witness ==
    /\ Outstanding(calls, EditorHandlers) = 1
    /\ Outstanding(calls, BackgroundHandlers) = 1

\* C3: at most one of isLoading, resultImage non-null, error non-null holds.
C3_MutuallyExclusive ==
    /\ ~(isLoading /\ resultImage # null)
    /\ ~(isLoading /\ error # null)
    /\ ~(resultImage # null /\ error # null)

\* C4: when an operation enters pending (a call of its panel is newly awaited)
\* the panel's previous result and the error are cleared: resultImage for edit,
\* detection and composite, generatedBackground for background generation.
C4_PendingClearsResultAndError ==
    [][ /\ Outstanding(calls', EditorHandlers) > Outstanding(calls, EditorHandlers)
            => resultImage' = null /\ error' = null
        /\ Outstanding(calls', BackgroundHandlers) > Outstanding(calls, BackgroundHandlers)
            => generatedBackground' = null /\ error' = null ]_vars

\* C5: an edit answer that arrives (no transport error) without candidates or
\* without inline image data ends the operation failed: error set, no result,
\* not loading.
C5_NoImageFails ==
    [][ \A call \in Awaiting("handleGenerate"), response \in ImageResponses :
            ( /\ response.transport = "ok"
              /\ firstInlineData(IF response.candidates = <<>> THEN <<>>
                                 ELSE response.candidates[1], 1) = null
              /\ handleGenerateResume(call, response) )
            => error' # null /\ resultImage' = null /\ ~isLoading' ]_vars

\* An edit has ended failed.
C5_Witness ==
    /\ error = Some("Failed to edit image. The model may not be able to fulfill this request. Please try a different prompt or image.")
    /\ resultImage = null
    /\ ~isLoading
    /\ Outstanding(calls, EditorHandlers) = 0

\* C6: the answer to an edit call issued for an image that is no longer the
\* active one changes neither resultImage nor error.
C6_StaleResultIgnored ==
    [][ \A call \in Awaiting("handleGenerate"), response \in ImageResponses :
            (stale(call) /\ handleGenerateResume(call, response))
            => UNCHANGED <<resultImage, error>> ]_vars

\* C7: every selected region equals (label and coordinates) a detected region.
C7_SelectionWithinDetection ==
    \A i \in 1..Len(selectedObjects) : contains(detectedObjects, selectedObjects[i])

\* Two regions of the detection result are selected.
C7_Witness == Len(selectedObjects) = 2 /\ Len(detectedObjects) >= 2

\* C8: a finished upload of a main image, a clear, the start of a detection
\* pass and the end of a detection pass each leave the selection empty.
C8_SelectionCleared ==
    [][ ( \/ ClearImage
          \/ \E call \in Awaiting("handleFileChange") : handleFileChangeResume(call, TRUE)
          \/ image # null /\ (DetectObjects \/ DetectText)
          \/ DetectResume )
        => selectedObjects' = <<>> ]_vars

\* A detection pass has ended with regions to show, and nothing is selected.
C8_Witness ==
    /\ ~isLoading
    /\ detectedObjects # <<>>
    /\ selectedObjects = <<>>
    /\ calls = EmptyBag

\* C9: a click on a box removes the region from the selection if a region equal
\* to it (label and coordinates) is selected, keeping the order of the others,
\* and appends it otherwise; nothing but selectedObjects changes.
C9_ToggleBySameRegion ==
    [][ \A object \in Regions :
            (boxShown(object) /\ handleObjectSelect(object))
            => /\ selectedObjects' = IF contains(selectedObjects, object)
                                     THEN without(selectedObjects, object)
                                     ELSE Append(selectedObjects, object)
               /\ UNCHANGED <<image, prompt, resultImage, isLoading, error, activePreset,
                              detectedObjects, compositorVars, calls>> ]_vars

\* C10: toggling twice a region the selection does not contain gives back the
\* selection, elements and order.
C10_ToggleTwice ==
    \A object \in Regions :
        ~contains(selectedObjects, object)
            => toggle(toggle(selectedObjects, object), object) = selectedObjects

\* A non-empty selection and a region it does not contain, toggled in and out.
C10_Witness ==
    /\ selectedObjects # <<>>
    /\ \E object \in Regions :
            /\ ~contains(selectedObjects, object)
            /\ Len(toggle(selectedObjects, object)) = Len(selectedObjects) + 1
            /\ toggle(toggle(selectedObjects, object), object) = selectedObjects

\* C11: no two elements of selectedObjects are equal as regions (label and
\* coordinates), whatever duplicates the detection result holds.
C11_SelectionUnique ==
    \A i, j \in 1..Len(selectedObjects) :
        i # j => ~sameRegion(selectedObjects[i], selectedObjects[j])

\* C12: on the regions a detection pass returned, areObjectsEqual holds exactly
\* when the labels and the four coordinates are equal.
C12_EqualIffSameRegion ==
    \A i, j \in 1..Len(detectedObjects) :
        areObjectsEqual(detectedObjects[i], detectedObjects[j])
            <=> sameRegion(detectedObjects[i], detectedObjects[j])

\* C13: the prompt of every edit call issued with a prompt synthesized from
\* regions (preset edit, isolate, remove, translate: any prompt but the custom
\* one) holds, for each selected region, its bounding-box literal: y_min, x_min,
\* y_max, x_max, each with exactly four decimals.
C13_BoxLiteral ==
    [][ \A c \in issued(calls, calls') :
            (c.handler = "handleGenerate" /\ c.prompt # prompt)
            => /\ selectedObjects # <<>>
               /\ \A i \in 1..Len(selectedObjects) :
                      includes(c.prompt, literal(selectedObjects[i])) ]_vars

\* An edit of the region {x_min:0.1, y_min:0.2, x_max:0.3, y_max:0.4} is awaited
\* and its prompt holds [0.2000, 0.1000, 0.4000, 0.3000].
C13_Witness ==
    /\ selectedObjects # <<>>
    /\ selectedObjects[1].boundingBox = BoxA
    /\ \E c \in Awaiting("handleGenerate") :
            includes(c.prompt, "[0.2000, 0.1000, 0.4000, 0.3000]")

\* C14: the prompt of the call a remove or a translate issues lists exactly one
\* entry per selected region, numbered from 1, entry i describing the i-th
\* region of the selection in the order of selection.
C14_NumberedInSelectionOrder ==
    [][ \A c \in issued(calls, calls') :
            (c.handler = "handleGenerate" /\ c.prompt # prompt) =>
            /\ Remove => listsInOrder(c.prompt,
                             "Remove the following objects from the image and inpaint their areas naturally to match the surroundings:\n",
                             [i \in 1..Len(selectedObjects) |-> removeEntry(i, selectedObjects[i])],
                             "")
            /\ Translate => listsInOrder(c.prompt,
                             "Translate the text in the following regions from Chinese to Korean. Then, replace the original text with the Korean translation. Ensure the new text fits naturally in the same location and matches the original style (font, color, size) as closely as possible.\n\nHere are the text regions to translate:\n",
                             [i \in 1..Len(selectedObjects) |-> translateEntry(i, selectedObjects[i])],
                             "\n") ]_vars

\* Detection returned the cat before the dog, the user selected the dog before
\* the cat, and the awaited edit lists the dog as 1 and the cat as 2.
C14_Witness ==
    /\ detectedObjects = <<RegionCat, RegionDog>>
    /\ selectedObjects = <<RegionDog, RegionCat>>
    /\ \E c \in Awaiting("handleGenerate") :
            /\ at(c.prompt, "\n1. The object 'dog'") # {}
            /\ at(c.prompt, "\n2. The object 'cat'") # {}

\* C15: the call a preset edit of exactly one selected region issues carries the
\* text-removal template (label and bounding-box literal filled in) for the
\* removeText preset, and the preset's instruction followed by the main-subject
\* framing for every other preset; the prompt is that function of the preset
\* key and the region for each of the presets.
C15_PresetPrompt ==
    [][ \A c \in issued(calls, calls') :
            (c.handler = "handleGenerate" /\ c.prompt # prompt /\ Len(selectedObjects) = 1) =>
            /\ \A presetKey \in PresetInputs :
                    (~isLoading /\ handleQuickEdit(presetKey))
                    => c.prompt = presetEditText(presetKey, selectedObjects[1])
            /\ \A presetKey \in DOMAIN EDIT_PRESETS :
                    quickEditPrompt(presetKey, selectedObjects[1])
                        = presetEditText(presetKey, selectedObjects[1]) ]_vars

\* A removeText edit of the one selected region is awaited with the
\* text-removal template as its prompt.
C15_Witness ==
    /\ activePreset = Some("removeText")
    /\ selectedObjects = <<RegionDog>>
    /\ \E c \in Awaiting("handleGenerate") :
            c.prompt = "Remove the selected text 'dog' located within the normalized bounding box (y_min, x_min, y_max, x_max) [0.0000, 0.1235, 0.5679, 1.0000]. Inpaint the area naturally to match the surroundings."

\* C16: a preset edit started while the number of selected regions is not one
\* awaits no call, leaves a precondition message in error and does not enter
\* pending: isLoading and activePreset stay as they are.
C16_PresetNeedsOneRegion ==
    [][ (QuickEdit /\ Len(selectedObjects) # 1)
        => /\ calls' = calls
           /\ error' \in { Some("Please upload an image first."),
                           Some("Please select exactly one object for this action.") }
           /\ UNCHANGED <<isLoading, activePreset>> ]_vars

\* A preset was clicked with two regions selected: the message is up, nothing
\* is pending.
C16_Witness ==
    /\ Len(selectedObjects) = 2
    /\ error = Some("Please select exactly one object for this action.")
    /\ ~isLoading
    /\ activePreset = null
    /\ Outstanding(calls, EditorHandlers) = 0

\* C17: whenever isolate can be invoked with a number of selected regions other
\* than one (zero included), invoking it awaits no call and leaves an error
\* message set.
C17_IsolateReportsWrongCount ==
    (~isLoading /\ Len(selectedObjects) # 1)
        => ENABLED (Isolate /\ calls' = calls /\ error' # null)

\* C18: a detection answer (objects or text) whose body is empty or does not
\* parse as JSON ends the pass with no detected regions and no error.
C18_UnreadableIsZeroDetections ==
    [][ \A call \in Awaiting("handleDetectObjects") \cup Awaiting("handleDetectText"),
           response \in DetectionResponses :
            ( /\ response.transport = "ok"
              /\ response.text.kind \in {"blank", "malformed"}
              /\ handleDetectResume(call, response) )
            => detectedObjects' = <<>> /\ error' = null ]_vars

\* C19: whatever the cause of a failed edit call (transport, no candidates, no
\* image payload), the error stored is one and the same message.
C19_OneEditFailureMessage ==
    [][ \A call \in Awaiting("handleGenerate"), response \in ImageResponses :
            (editFails(response) /\ handleGenerateResume(call, response))
            => error' = Some("Failed to edit image. The model may not be able to fulfill this request. Please try a different prompt or image.") ]_vars

\* The edit of a selected region has failed and its message is shown.
C19_Witness ==
    /\ selectedObjects # <<>>
    /\ ~isLoading
    /\ error = Some("Failed to edit image. The model may not be able to fulfill this request. Please try a different prompt or image.")

\* C20: no step awaits more than one new backend call, and the step that takes
\* the answer of a backend call (failed or not) awaits none: the outstanding
\* backend calls are one fewer after it.
C20_NoRetry ==
    [][ /\ Outstanding(calls', RemoteHandlers) <= Outstanding(calls, RemoteHandlers) + 1
        /\ (GenerateResume \/ DetectResume \/ GenerateBackgroundResume)
            => Outstanding(calls', RemoteHandlers) = Outstanding(calls, RemoteHandlers) - 1 ]_vars

\* A detection has failed and no backend call is outstanding.
C20_Witness ==
    /\ error = Some("Failed to detect objects in the image. The model may not have been able to identify any distinct items.")
    /\ ~isLoading
    /\ Outstanding(calls, RemoteHandlers) = 0

\* C21: every step that takes the failed answer of an awaited call (a file read
\* of any of the three uploads, an edit, a detection, a background generation,
\* a composite) leaves an error message in state.
C21_FailuresBecomeErrors ==
    [][ ( \/ \E call \in Awaiting("handleFileChange") : handleFileChangeResume(call, FALSE)
          \/ \E call \in Awaiting("handleObjectImageChange") :
                handleObjectImageChangeResume(call, FALSE)
          \/ \E call \in Awaiting("handleBackgroundImageChange") :
                handleBackgroundImageChangeResume(call, FALSE)
          \/ \E call \in Awaiting("handleGenerate"), response \in ImageResponses :
                ~editImage(response).ok /\ handleGenerateResume(call, response)
          \/ \E call \in Awaiting("handleDetectObjects") \cup Awaiting("handleDetectText"),
                response \in DetectionResponses :
                ~detectObjects(response).ok /\ handleDetectResume(call, response)
          \/ \E call \in Awaiting("handleGenerateBackground"), response \in ImageResponses :
                ~generateImageFromPrompt(response).ok
                    /\ handleGenerateBackgroundResume(call, response)
          \/ \E call \in Awaiting("handleComposite") : handleCompositeResume(call, FALSE) )
        => error' # null ]_vars

\* C22: the step that ends an operation failed clears its pending flag, and
\* after it the control of every action of that kind whose inputs are in place
\* is enabled, hence that of the action that failed when the image, the
\* selection and the prompt are those it was issued with: custom generate needs
\* a prompt, a preset or isolate one selected region, remove and translate at
\* least one; detection the image; background generation its prompt box;
\* composite the two layers.
C22_FailureRecoverable ==
    [][ \A call \in answered(calls, calls') :
        /\ \A response \in ImageResponses :
            ( /\ call.handler = "handleGenerate"
              /\ editFails(response)
              /\ handleGenerateResume(call, response) )
            => /\ ~isLoading'
               /\ ~stale(call)' =>
                    /\ prompt' = call.prompt => generateEnabled'
                    /\ Len(selectedObjects') = 1 => quickActionEnabled' /\ isolateEnabled'
                    /\ Len(selectedObjects') >= 1 => removeEnabled' /\ translateEnabled'
        /\ \A response \in DetectionResponses :
            ( /\ call.handler \in {"handleDetectObjects", "handleDetectText"}
              /\ ~detectObjects(response).ok
              /\ handleDetectResume(call, response) )
            => ~isLoading' /\ (~stale(call)' => detectEnabled')
        /\ \A response \in ImageResponses :
            ( /\ call.handler = "handleGenerateBackground"
              /\ editFails(response)
              /\ handleGenerateBackgroundResume(call, response) )
            => /\ ~isGeneratingBg'
               /\ (backgroundPrompt' = call.prompt /\ backgroundPromptShown')
                    => generateBackgroundEnabled'
        /\ (call.handler = "handleComposite" /\ handleCompositeResume(call, FALSE))
            => /\ ~isLoading'
               /\ ( /\ objectImage' # null
                    /\ objectImage'[1].src = call.foreground
                    /\ backgroundSrc' = Some(call.background) )
                    => compositeEnabled' ]_vars

\* An edit has failed; the image and the prompt are still there and the custom
\* generate button is enabled.
C22_Witness ==
    /\ error = Some("Failed to edit image. The model may not be able to fulfill this request. Please try a different prompt or image.")
    /\ generateEnabled
    /\ calls = EmptyBag

\* C23: a compositor operation (background generation, composite: its start,
\* its success, its failure) leaves the main editor's isLoading, resultImage and
\* error as they are, and a main-editor operation leaves the compositor's state
\* as it is.
C23_PanelsIndependent ==
    [][ /\ (GenerateBackground \/ GenerateBackgroundResume \/ Composite \/ CompositeResume)
            => UNCHANGED <<isLoading, resultImage, error>>
        /\ ( \/ FileChange \/ FileChangeResume \/ ClearImage \/ PromptChange \/ Generate
             \/ QuickEdit \/ DetectObjects \/ DetectText \/ Isolate \/ Remove \/ ObjectSelect
             \/ Translate \/ GenerateResume \/ DetectResume )
            => UNCHANGED compositorVars ]_vars

\* C25: the step that takes a successful edit answer leaves isLoading false,
\* error null and resultImage = 'data:image/png;base64,' followed by the
\* answer's payload; and the image data an edit call is issued with is the
\* active image's source without its data-URI prefix.
C25_EditResult ==
    [][ /\ \A call \in answered(calls, calls'), response \in ImageResponses :
            ( /\ call.handler = "handleGenerate"
              /\ ~editFails(response)
              /\ handleGenerateResume(call, response) )
            => /\ ~isLoading'
               /\ error' = null
               /\ resultImage' = Some(<<"data:image/png;base64", payload(response)>>)
        /\ \A c \in issued(calls, calls') :
            c.handler = "handleGenerate"
            => /\ image # null
               /\ <<"data:" \o image[1].file.type \o ";base64", c.base64Data>> = image[1].src ]_vars

\* C26: after every step, detectedObjects is empty when no image is active, and
\* the answer of a detection call issued for an image that is no longer the
\* active one leaves no regions shown.
C26_DetectionOfActiveImage ==
    [][ /\ image' = null => detectedObjects' = <<>>
        /\ \A call \in answered(calls, calls'), response \in DetectionResponses :
            ( /\ call.handler \in {"handleDetectObjects", "handleDetectText"}
              /\ stale(call)'
              /\ handleDetectResume(call, response) )
            => detectedObjects' = <<>> ]_vars

\* C27: activePreset names a preset only while an edit that preset started is
\* pending: then isLoading holds and an edit call carrying that preset's prompt
\* for some region is awaited; once the operation has ended (isLoading false)
\* activePreset is null.
C27_ActivePresetAccurate ==
    activePreset # null
        => /\ isLoading
           /\ \E c \in Awaiting("handleGenerate"), region \in Regions :
                c.prompt = presetEditText(activePreset[1], region)

\* A vintageFilter edit is pending and attributed to its preset.
C27_Witness ==
    /\ activePreset = Some("vintageFilter")
    /\ isLoading
    /\ Awaiting("handleGenerate") # {}

\* C28: the step that takes a failed read of a main-image upload sets an error
\* message, leaves image, detectedObjects, selectedObjects and resultImage as
\* they are, and awaits no new call (the read is not tried again).
C28_FailedReadKeepsEditor ==
    [][ \A call \in answered(calls, calls') :
            (call.handler = "handleFileChange" /\ handleFileChangeResume(call, FALSE))
            => /\ error' = Some("Failed to read the image file.")
               /\ UNCHANGED <<image, detectedObjects, selectedObjects, resultImage>>
               /\ issued(calls, calls') = {} ]_vars

\* A read has failed while a result was on display: the result is still there.
C28_Witness ==
    /\ error = Some("Failed to read the image file.")
    /\ image = null
    /\ resultImage # null
    /\ Awaiting("handleFileChange") = {}

\* C29: clearing the main image leaves objectImage, backgroundImage and
\* generatedBackground as they are; clearing the object image, the uploaded
\* background or the generated background sets that handle to null and changes
\* nothing else.
C29_ClearedPerPanel ==
    [][ /\ ClearImage
            => image' = null /\ UNCHANGED <<objectImage, backgroundImage, generatedBackground>>
        /\ ClearObjectImage
            => /\ objectImage' = null
               /\ UNCHANGED <<editorVars, backgroundImage, generatedBackground, backgroundPrompt,
                              compositorBgMode, isGeneratingBg, calls>>
        /\ ClearBackgroundImage
            => /\ backgroundImage' = null
               /\ UNCHANGED <<editorVars, objectImage, generatedBackground, backgroundPrompt,
                              compositorBgMode, isGeneratingBg, calls>>
        /\ ClearGeneratedBackground
            => /\ generatedBackground' = null
               /\ UNCHANGED <<editorVars, objectImage, backgroundImage, backgroundPrompt,
                              compositorBgMode, isGeneratingBg, calls>> ]_vars

\* The main image was cleared after a prompt was typed for it, and the object
\* layer and the generated background are still held.
C29_Witness ==
    /\ image = null
    /\ prompt # ""
    /\ objectImage # null
    /\ generatedBackground # null

\* ---------------------------------------------------------------- render geometry (C24, C30)

\* x <= y for a Number x and a positive Number y.
fle(x, y) == x.sign <= 0 \/ cmpExact(x.m, x.e, y.m, y.e) <= 0

\* The exact difference d = <<sign, bits, exponent>> is twice the Number x.
twice(d, x) == d[1] = x.sign /\ (d[1] = 0 \/ cmpExact(d[2], d[3], x.m, x.e + 1) = 0)

contained(info, img) ==
    /\ fle(info.width, fromInt(img.clientWidth))
    /\ fle(info.height, fromInt(img.clientHeight))

\* width * naturalHeight = height * naturalWidth, exactly.
aspectPreserved(info, img) ==
    cmpExact(mulSmall(info.width.m, img.naturalHeight), info.width.e,
             mulSmall(info.height.m, img.naturalWidth), info.height.e) = 0

\* left = (clientWidth - width) / 2 and top = (clientHeight - height) / 2, exactly.
centered(info, img) ==
    /\ twice(exactSub(fromInt(img.clientWidth), info.width), info.left)
    /\ twice(exactSub(fromInt(img.clientHeight), info.height), info.top)

touches(info, img) ==
    info.width = fromInt(img.clientWidth) \/ info.height = fromInt(img.clientHeight)

\* The <img> of a mounted ImagePreview (none before it is mounted).
mounted(ref) == IF ref = null THEN {} ELSE {ref[1]}

\* C24: whenever the element and the image have positive sizes, the stored
\* rectangle is no wider and no higher than the element, has exactly the
\* image's aspect ratio (width * naturalHeight = height * naturalWidth), is
\* centred in the element and spans the element on one axis.
C24_AspectFit ==
    \A img \in mounted(imgRef) :
        (img.naturalWidth > 0 /\ img.naturalHeight > 0)
        => /\ contained(renderInfo, img)
           /\ aspectPreserved(renderInfo, img)
           /\ centered(renderInfo, img)
           /\ touches(renderInfo, img)

\* C30: the geometry starts as the all-zero rectangle, and a recompute that
\* finds a natural dimension of zero leaves the stored geometry as it was, so
\* the geometry changes first in a recompute with positive natural dimensions.
C30_NoGeometryWithoutNaturalSize ==
    /\ renderInfo = NoGeometry
    /\ [][ \A img \in mounted(imgRef') :
               (img.naturalWidth = 0 \/ img.naturalHeight = 0) => renderInfo' = renderInfo ]_vars

\* A geometry computed for an earlier image is still stored while the next
\* image has no natural size yet.
C30_Witness ==
    \E img \in mounted(imgRef) :
        (img.naturalWidth = 0 \/ img.naturalHeight = 0) /\ renderInfo # NoGeometry

\* ---------------------------------------------------------------- C31..C36

\* The lists a detection that succeeds can store.
detectionResults ==
    { detected(response).value : response \in { r \in DetectionResponses : detected(r).ok } }

\* C31: provided every awaited call is answered, isLoading and isGeneratingBg
\* do not stay true for ever, and the step that answers the call clears the
\* flag and leaves the outcome in the state: an edited or composed image or an
\* error, the detected regions (a list, which may be empty) or an error, a
\* generated background or an error.
C31_PendingEnds ==
    /\ isLoading ~> ~isLoading
    /\ isGeneratingBg ~> ~isGeneratingBg
    /\ [][ \A c \in answered(calls, calls') :
               /\ c.handler \in {"handleGenerate", "handleComposite"}
                    => ~isLoading' /\ (resultImage' # null \/ error' # null)
               /\ c.handler \in {"handleDetectObjects", "handleDetectText"}
                    => ~isLoading' /\ (detectedObjects' \in detectionResults \/ error' # null)
               /\ c.handler = "handleGenerateBackground"
                    => ~isGeneratingBg' /\ (generatedBackground' # null \/ error' # null) ]_vars

\* Both panels have been pending and have ended with a result.
C31_Witness ==
    /\ ~isLoading
    /\ ~isGeneratingBg
    /\ resultImage # null
    /\ generatedBackground # null
    /\ error = null
    /\ calls = EmptyBag

\* C32: with every operation fired only while its button is not disabled by
\* isLoading, isLoading holds exactly while an edit, detection or composite
\* call is awaited, also for a call whose image was cleared or replaced.
C32_LoadingIffOutstanding == isLoading <=> Outstanding(calls, EditorHandlers) >= 1

\* An edit of a selected region is awaited and the image has been cleared and
\* uploaded again since: the detection result the region came from is gone.
C32_Witness ==
    /\ isLoading
    /\ image # null
    /\ detectedObjects = <<>>
    /\ \E c \in Awaiting("handleGenerate") : c.prompt # prompt

\* C33: the uploaded background and the generated background are never both
\* set, however uploads, generations and their completions interleave.
C33_OneBackgroundSource == backgroundImage = null \/ generatedBackground = null

\* A generated background is set while the read of an uploaded background and
\* another generation are both awaited: either may complete first.
C33_Witness ==
    /\ generatedBackground # null
    /\ Awaiting("handleBackgroundImageChange") # {}
    /\ Awaiting("handleGenerateBackground") # {}

\* C34: without a main image the selection is empty, in the initial state and
\* after every step, and no step taken without a main image (isolate, remove
\* and translate among them) issues an edit call.
C34_NoSelectionWithoutImage ==
    /\ image = null => selectedObjects = <<>>
    /\ [][ /\ image' = null => selectedObjects' = <<>>
           /\ image = null => \A c \in issued(calls, calls') : c.handler # "handleGenerate" ]_vars

\* The image was cleared while a detection was awaited, and its late result is
\* stored: regions are known, none is selected, and there is no image.
C34_Witness ==
    /\ image = null
    /\ detectedObjects # <<>>
    /\ selectedObjects = <<>>
    /\ calls = EmptyBag

\* C35: a step of generate, preset edit, detection, isolate, remove, translate,
\* background generation or composite that awaits no call (its precondition
\* failed) changes nothing but error.
C35_PreconditionFailureFrame ==
    [][ \/ UNCHANGED <<image, prompt, resultImage, isLoading, activePreset, detectedObjects,
                       selectedObjects, compositorVars>>
        \/ calls' # calls
        \/ ~( \/ Generate \/ DetectObjects \/ DetectText \/ GenerateBackground \/ Composite
              \/ QuickEdit \/ Isolate \/ Remove \/ Translate ) ]_vars

\* A composite was asked for without its layers while an edit result is shown:
\* the message is up and the result is still there.
C35_Witness ==
    /\ error = Some("Please provide both an object and a background image.")
    /\ resultImage # null
    /\ image # null
    /\ calls = EmptyBag

\* The regions of the current detection result.
detectedRegions == { detectedObjects[i] : i \in 1..Len(detectedObjects) }

\* C36: on the regions of every detection result that is stored,
\* areObjectsEqual is reflexive, symmetric and transitive.
C36_EqualIsEquivalence ==
    [][ detectedObjects' # detectedObjects
        => \A a, b, c \in detectedRegions' :
               /\ areObjectsEqual(a, a)
               /\ areObjectsEqual(a, b) => areObjectsEqual(b, a)
               /\ (areObjectsEqual(a, b) /\ areObjectsEqual(b, c)) => areObjectsEqual(a, c) ]_vars

\* A detection result with a region listed twice and a region whose box has
\* the same coordinates under another key order.
C36_Witness ==
    /\ \E i, j \in 1..Len(detectedObjects) :
            i # j /\ areObjectsEqual(detectedObjects[i], detectedObjects[j])
    /\ \E a, b \in detectedRegions : sameRegion(a, b) /\ ~areObjectsEqual(a, b)

====
